---- MODULE Spec2Model ----
\* Model of the bank-statement ingestion pipeline of manateeit/taxtools:
\* src/agents/statement_ingestion_agent.py (StatementIngestionAgent),
\* src/utils/database.py (persistence gateway), src/utils/pdf.py and
\* src/schemas/statement_parser.py (validator).
\*
\* Python strings are TLA+ strings (Len, SubSeq and \o work on them), python
\* dicts are functions whose DOMAIN is the set of keys present, amounts are
\* integer cents.
EXTENDS Integers, Sequences, FiniteSets, TLC

(***************************************************************************)
(* Bounds                                                                  *)
(***************************************************************************)
\* number of directory runs (process_directory / process_json_directory)
\* started in one behaviour
MaxRuns == 3

(***************************************************************************)
(* String helpers (python str / re semantics)                              *)
(***************************************************************************)
Digits == {"0", "1", "2", "3", "4", "5", "6", "7", "8", "9"}

Char(s, i) == SubSeq(s, i, i)

AllDigits(s) == \A i \in 1..Len(s) : Char(s, i) \in Digits

MinOf(S) == CHOOSE m \in S : \A n \in S : m <= n

DigitVal(c) ==
    CASE c = "0" -> 0 [] c = "1" -> 1 [] c = "2" -> 2 [] c = "3" -> 3
      [] c = "4" -> 4 [] c = "5" -> 5 [] c = "6" -> 6 [] c = "7" -> 7
      [] c = "8" -> 8 [] c = "9" -> 9

RECURSIVE ToNat(_)
ToNat(s) == IF Len(s) = 0 THEN 0
            ELSE 10 * ToNat(SubSeq(s, 1, Len(s) - 1)) + DigitVal(Char(s, Len(s)))

\* positions of "/" in s
SlashPos(s) == {i \in 1..Len(s) : Char(s, i) = "/"}

\* s.split('/') as a sequence of strings
RECURSIVE Split(_)
Split(s) ==
    IF SlashPos(s) = {} THEN <<s>>
    ELSE LET i == MinOf(SlashPos(s))
         IN  <<SubSeq(s, 1, i - 1)>> \o Split(SubSeq(s, i + 1, Len(s)))

\* s.split('/')[0] and s.split('/')[-1]
SplitFirst(s) == Split(s)[1]
SplitLast(s)  == Split(s)[Len(Split(s))]

\* s[-4:]
LastFour(s) == IF Len(s) <= 4 THEN s ELSE SubSeq(s, Len(s) - 3, Len(s))

\* s.replace('.pdf', '.json') for names that end in .pdf
ReplacePdfJson(s) ==
    IF Len(s) >= 4 /\ SubSeq(s, Len(s) - 3, Len(s)) = ".pdf"
    THEN SubSeq(s, 1, Len(s) - 4) \o ".json"
    ELSE s

\* s.startswith(p), s.endswith(p)
StartsWith(s, p) == Len(s) >= Len(p) /\ SubSeq(s, 1, Len(p)) = p

EndsWith(s, p) == Len(s) >= Len(p) /\ SubSeq(s, Len(s) - Len(p) + 1, Len(s)) = p

Whitespace == {" ", "\n", "\t", "\r"}

\* s.strip()
RECURSIVE Strip(_)
Strip(s) ==
    IF Len(s) = 0 THEN s
    ELSE IF Char(s, 1) \in Whitespace THEN Strip(SubSeq(s, 2, Len(s)))
    ELSE IF Char(s, Len(s)) \in Whitespace THEN Strip(SubSeq(s, 1, Len(s) - 1))
    ELSE s

\* s.replace(old, ""): the occurrences of old found scanning left to right
RECURSIVE RemoveAll(_, _)
RemoveAll(s, old) ==
    LET I == {i \in 1..(Len(s) - Len(old) + 1) : SubSeq(s, i, i + Len(old) - 1) = old}
    IN  IF I = {} THEN s
        ELSE LET i == MinOf(I)
             IN  SubSeq(s, 1, i - 1) \o RemoveAll(SubSeq(s, i + Len(old), Len(s)), old)

NoMatch == <<>>

\* re.search(r'(\d{8})-statements-(\d{4})-', s): groups of the leftmost match
MatchAt8(s, i) ==
    /\ i + 24 <= Len(s)
    /\ AllDigits(SubSeq(s, i, i + 7))
    /\ SubSeq(s, i + 8, i + 19) = "-statements-"
    /\ AllDigits(SubSeq(s, i + 20, i + 23))
    /\ Char(s, i + 24) = "-"

Search8(s) ==
    LET I == {i \in 1..Len(s) : MatchAt8(s, i)}
    IN  IF I = {} THEN NoMatch
        ELSE LET i == MinOf(I)
             IN  <<SubSeq(s, i, i + 7), SubSeq(s, i + 20, i + 23)>>

\* re.search(r'(\d{4})(\d{2})\d{2}-statements-(\d{4})-', s)
SearchAlt(s) ==
    LET I == {i \in 1..Len(s) : MatchAt8(s, i)}
    IN  IF I = {} THEN NoMatch
        ELSE LET i == MinOf(I)
             IN  <<SubSeq(s, i, i + 3), SubSeq(s, i + 4, i + 5),
                   SubSeq(s, i + 20, i + 23)>>

\* re.search(r'(\d{4})-statements-(\d{4})-', s)
MatchAt4(s, i) ==
    /\ i + 20 <= Len(s)
    /\ AllDigits(SubSeq(s, i, i + 3))
    /\ SubSeq(s, i + 4, i + 15) = "-statements-"
    /\ AllDigits(SubSeq(s, i + 16, i + 19))
    /\ Char(s, i + 20) = "-"

Search4(s) ==
    LET I == {i \in 1..Len(s) : MatchAt4(s, i)}
    IN  IF I = {} THEN NoMatch
        ELSE LET i == MinOf(I)
             IN  <<SubSeq(s, i, i + 3), SubSeq(s, i + 16, i + 19)>>

\* datetime.strptime(s, "%m/%d/%Y") succeeds
IsLeap(y) == (y % 4 = 0 /\ y % 100 # 0) \/ y % 400 = 0

DaysIn(m, y) ==
    IF m = 2 THEN (IF IsLeap(y) THEN 29 ELSE 28)
    ELSE IF m \in {4, 6, 9, 11} THEN 30 ELSE 31

Strptime_ok(s) ==
    LET p == Split(s)
    IN  /\ Len(p) = 3
        /\ Len(p[1]) \in {1, 2} /\ AllDigits(p[1])
        /\ Len(p[2]) \in {1, 2} /\ AllDigits(p[2])
        /\ Len(p[3]) = 4 /\ AllDigits(p[3])
        /\ ToNat(p[1]) \in 1..12
        /\ ToNat(p[3]) >= 1
        /\ ToNat(p[2]) \in 1..DaysIn(ToNat(p[1]), ToNat(p[3]))

\* the date value strptime(...).date() yields, as <<year, month, day>>
Strptime(s) ==
    LET p == Split(s) IN <<ToNat(p[3]), ToNat(p[1]), ToNat(p[2])>>

(***************************************************************************)
(* Schema & Validator (src/schemas/statement_parser.py)                    *)
(***************************************************************************)
Get(d, k, default) == IF k \in DOMAIN d THEN d[k] ELSE default

Put(d, k, v) == [x \in DOMAIN d \cup {k} |-> IF x = k THEN v ELSE d[x]]

\* pattern ^(0[1-9]|1[0-2])/(0[1-9]|[12]\d|3[01])(/\d{4})?$
DatePattern_ok(s) ==
    /\ Len(s) \in {5, 10}
    /\ AllDigits(SubSeq(s, 1, 2)) /\ ToNat(SubSeq(s, 1, 2)) \in 1..12
    /\ Char(s, 3) = "/"
    /\ AllDigits(SubSeq(s, 4, 5)) /\ ToNat(SubSeq(s, 4, 5)) \in 1..31
    /\ Len(s) = 10 => (Char(s, 6) = "/" /\ AllDigits(SubSeq(s, 7, 10)))

DescChars ==
    Digits \cup
    {"a", "b", "c", "d", "e", "f", "g", "h", "i", "j", "k", "l", "m",
     "n", "o", "p", "q", "r", "s", "t", "u", "v", "w", "x", "y", "z",
     "A", "B", "C", "D", "E", "F", "G", "H", "I", "J", "K", "L", "M",
     "N", "O", "P", "Q", "R", "S", "T", "U", "V", "W", "X", "Y", "Z",
     " ", "-", ":", ".", "#", "/", "(", ")", ",", "*", "_", "[", "]"}

\* pattern ^[a-zA-Z0-9\s\-\:\.\#\/\(\)\,\*\_\[\]]+$
DescPattern_ok(s) == Len(s) >= 1 /\ \A i \in 1..Len(s) : Char(s, i) \in DescChars

\* a value pydantic coerces to Decimal: [-]digits[.digits]
IsDecimal(s) ==
    LET body == IF Len(s) >= 1 /\ Char(s, 1) = "-" THEN SubSeq(s, 2, Len(s)) ELSE s
        dots == {i \in 1..Len(body) : Char(body, i) = "."}
    IN  /\ Len(body) >= 1
        /\ Cardinality(dots) <= 1
        /\ \A i \in 1..Len(body) : Char(body, i) \in Digits \cup {"."}
        /\ \E i \in 1..Len(body) : Char(body, i) \in Digits

\* int part of a Decimal literal without its leading zeros
RECURSIVE StripZeros(_)
StripZeros(s) ==
    IF Len(s) = 0 THEN "0"
    ELSE IF Len(s) >= 2 /\ Char(s, 1) = "0" THEN StripZeros(SubSeq(s, 2, Len(s)))
    ELSE s

\* beginning_balance: Decimal: the Decimal pydantic builds from a literal,
\* written as str() writes it (sign, integer part, fractional digits kept)
ToDecimal_truncated(s) ==
    IF ~IsDecimal(s) THEN s
    ELSE LET neg  == StartsWith(s, "-")
             body == IF neg THEN SubSeq(s, 2, Len(s)) ELSE s
             dots == {i \in 1..Len(body) : Char(body, i) = "."}
             int  == IF dots = {} THEN body ELSE SubSeq(body, 1, MinOf(dots) - 1)
         IN  (IF neg THEN "-" ELSE "") \o StripZeros(int)

ToDecimal(s) ==
    IF ~IsDecimal(s) THEN s
    ELSE LET neg  == StartsWith(s, "-")
             body == IF neg THEN SubSeq(s, 2, Len(s)) ELSE s
             dots == {i \in 1..Len(body) : Char(body, i) = "."}
             int  == IF dots = {} THEN body ELSE SubSeq(body, 1, MinOf(dots) - 1)
             frac == IF dots = {} THEN "" ELSE SubSeq(body, MinOf(dots) + 1, Len(body))
         IN  (IF neg THEN "-" ELSE "") \o StripZeros(int)
                 \o (IF frac = "" THEN "" ELSE "." \o frac)

\* amount: float = Field(..., gt=0)
Amount_ok_ge(a) == a >= 0

Amount_ok(a) == a > 0

\* the seven categories listed in Field(..., enum=[...]); pydantic keeps the
\* enum keyword as schema metadata and does not check values against it
TaxCategories ==
    {"Domestic Business Expense", "International Subcontractors", "Tax Payment",
     "Transfer", "Loan Payment", "Utility Payment", "Professional Services"}

TaxCategory_ok(c) == TRUE

RequiredStr == {"account_number", "statement_date", "period_start", "period_end", "filename"}
RequiredDecimal == {"beginning_balance", "ending_balance", "total_fees"}

DepositErrors(kind, i, t) ==
    {<<kind, i, k>> : k \in {"date", "description", "amount"} \ DOMAIN t}
    \cup (IF "date" \in DOMAIN t /\ ~DatePattern_ok(t.date)
          THEN {<<kind, i, "date">>} ELSE {})
    \cup (IF "description" \in DOMAIN t /\ ~DescPattern_ok(t.description)
          THEN {<<kind, i, "description">>} ELSE {})
    \cup (IF "amount" \in DOMAIN t /\ ~Amount_ok(t.amount)
          THEN {<<kind, i, "amount">>} ELSE {})

WithdrawalErrors(i, t) ==
    DepositErrors("withdrawals", i, t)
    \cup (IF "tax_category" \notin DOMAIN t
             \/ ~TaxCategory_ok(t.tax_category)
          THEN {<<"withdrawals", i, "tax_category">>} ELSE {})

\* StatementData(**data): the set of error locations pydantic reports
ValidationErrors(data) ==
    {<<k>> : k \in (RequiredStr \cup RequiredDecimal) \ DOMAIN data}
    \cup {<<k>> : k \in {x \in RequiredDecimal \cap DOMAIN data : ~IsDecimal(data[x])}}
    \cup UNION {DepositErrors("deposits", i, Get(data, "deposits", <<>>)[i]) :
                  i \in 1..Len(Get(data, "deposits", <<>>))}
    \cup UNION {WithdrawalErrors(i, Get(data, "withdrawals", <<>>)[i]) :
                  i \in 1..Len(Get(data, "withdrawals", <<>>))}

\* the StatementData value built from a payload (read only when the payload
\* has no validation error)
StatementData(data) ==
    [account_number    |-> Get(data, "account_number", ""),
     statement_date    |-> Get(data, "statement_date", ""),
     period_start      |-> Get(data, "period_start", ""),
     period_end        |-> Get(data, "period_end", ""),
     beginning_balance |-> ToDecimal(Get(data, "beginning_balance", "")),
     ending_balance    |-> ToDecimal(Get(data, "ending_balance", "")),
     total_fees        |-> ToDecimal(Get(data, "total_fees", "")),
     filename          |-> Get(data, "filename", ""),
     important_notes   |-> Get(data, "important_notes", ""),
     deposits          |-> Get(data, "deposits", <<>>),
     withdrawals       |-> Get(data, "withdrawals", <<>>)]

(***************************************************************************)
(* _process_json_data, lines 168-186: filename and year backfill           *)
(***************************************************************************)
Backfill_anyslash(items, statement_year) ==
    [i \in 1..Len(items) |->
        IF Len(Split(items[i].date)) >= 2
        THEN [items[i] EXCEPT !.date = items[i].date \o "/" \o statement_year]
        ELSE items[i]]

Backfill(items, statement_year) ==
    [i \in 1..Len(items) |->
        IF Len(Split(items[i].date)) = 2
        THEN [items[i] EXCEPT !.date = items[i].date \o "/" \o statement_year]
        ELSE items[i]]

\* line 169: data.get('statement_date', '').split('/')[-1]
StatementYear_first(data) == SplitFirst(Get(data, "statement_date", ""))

StatementYear(data) == SplitLast(Get(data, "statement_date", ""))

RowFilename(data) ==
    LastFour(data.account_number) \o "-" \o SplitFirst(Get(data, "statement_date", ""))
        \o "-" \o SplitLast(Get(data, "statement_date", "")) \o ".pdf"

Normalize(data) ==
    LET statement_year == StatementYear(data)
        d1 == IF "account_number" \in DOMAIN data
              THEN Put(data, "filename", RowFilename(data)) ELSE data
        d2 == IF "deposits" \in DOMAIN d1
              THEN Put(d1, "deposits", Backfill(d1.deposits, statement_year)) ELSE d1
    IN  IF "withdrawals" \in DOMAIN d2
        THEN Put(d2, "withdrawals", Backfill(d2.withdrawals, statement_year)) ELSE d2

(***************************************************************************)
(* Inputs: the input directory, the account table, what the model returns  *)
(***************************************************************************)
\* process_directory(company, account_number, year)
Company == "ACME"
AccountNumber == "954291944"

\* target_dir.glob("*.pdf"): a statement with a text layer, a statement that
\* is a scanned image (no extractable text), and a file named the way
\* _process_json_data names rows (account-month-year.pdf, line 172), which
\* matches neither identity pattern
PdfListing ==
    <<"20240331-statements-1944-a.pdf",
      "20240430-statements-1944-b.pdf",
      "1944-03-2024.pdf">>

ImageOnly == {PdfListing[2]}

\* extract_text_from_pdf(pdf): TRUE for text, FALSE for None
ExtractOutcomes(pdf) == IF pdf \in ImageOnly THEN {FALSE} ELSE BOOLEAN

\* table account_references
AccountReferences ==
    {[id |-> 7, account_number |-> AccountNumber, company_name |-> Company]}

\* what the statement in a PDF says
TruePayload(pdf) ==
    LET mm == IF pdf = PdfListing[1] THEN "03" ELSE "04"
        dd == IF pdf = PdfListing[1] THEN "31" ELSE "30"
    IN  [account_number    |-> AccountNumber,
         statement_date    |-> mm \o "/" \o dd \o "/2024",
         period_start      |-> mm \o "/01/2024",
         period_end        |-> mm \o "/" \o dd \o "/2024",
         beginning_balance |-> "1000.00",
         ending_balance    |-> "1750.00",
         total_fees        |-> "0.00",
         deposits          |-> <<[date |-> mm \o "/15", description |-> "PAYROLL ACH",
                                  amount |-> 125000]>>,
         withdrawals       |-> <<[date |-> mm \o "/20/2024", description |-> "POWER CO",
                                  amount |-> 50000,
                                  tax_category |-> "Utility Payment"]>>]

\* payloads a model may return for a PDF: the faithful one and defective ones
Payloads(pdf) ==
    LET t == TruePayload(pdf)
    IN  {t,
         [t EXCEPT !.deposits[1].amount = 0],
         [t EXCEPT !.account_number = "000000000"],
         [t EXCEPT !.withdrawals[1].date = "02/30/2024"]}

\* response.content: text that is not JSON, or a payload, bare or in a
\* {status, data, error} envelope
NotJson == [json |-> FALSE]

Responses(pdf) ==
    {NotJson}
    \cup {[json |-> TRUE, envelope |-> e, payload |-> q] :
            e \in BOOLEAN, q \in Payloads(pdf)}

\* json.loads(content), then lines 89-92: unwrap a nested 'data' key
DataContent(response) ==
    LET json_response ==
            IF response.envelope
            THEN [status |-> "success", data |-> response.payload]
            ELSE response.payload
    IN  IF "data" \in DOMAIN json_response THEN json_response.data ELSE json_response

(***************************************************************************)
(* Response text: code fences and json.loads                               *)
(***************************************************************************)
\* the backquote character; a TLA+ string cannot hold it, the apostrophe
\* stands for it
Tick == "'"

Fence == Tick \o Tick \o Tick

\* re.sub(r'^```(?:json)?\n(.*)\n```$', r'\1', content.strip(), flags=re.DOTALL)
FenceSub(content) ==
    LET s == Strip(content)
        p == IF StartsWith(s, Fence \o "json\n") THEN Fence \o "json\n" ELSE Fence \o "\n"
    IN  IF /\ StartsWith(s, p)
           /\ EndsWith(s, "\n" \o Fence)
           /\ Len(s) >= Len(p) + 4
        THEN SubSeq(s, Len(p) + 1, Len(s) - 4)
        ELSE s

\* process_statement, lines 80-83
UnfenceAgent(content) ==
    IF StartsWith(content, Fence) /\ EndsWith(content, Fence)
    THEN FenceSub(content)
    ELSE content

\* create_json_files, cli.py lines 76-80
UnfenceCli(content) ==
    IF StartsWith(content, Fence)
    THEN RemoveAll(RemoveAll(RemoveAll(content, Fence \o "json\n"), Fence \o "\n"), Fence)
    ELSE content

\* the JSON text of a payload, and of the payload in a {status, data} envelope
InnerPayload == [account_number |-> AccountNumber, statement_date |-> "03/31/2024"]

PayloadText == "{\"account_number\": \"954291944\", \"statement_date\": \"03/31/2024\"}"

EnvelopeText == "{\"status\": \"success\", \"data\": " \o PayloadText \o "}"

\* json.loads(text) for the texts above: whitespace around the value is
\* skipped, any other text raises JSONDecodeError
JsonLoads(text) ==
    LET t == Strip(text)
    IN  IF t = PayloadText
        THEN [json |-> TRUE, envelope |-> FALSE, payload |-> InnerPayload]
        ELSE IF t = EnvelopeText
        THEN [json |-> TRUE, envelope |-> TRUE, payload |-> InnerPayload]
        ELSE NotJson

\* lines 86-92 (cli.py 82-84): the data a response text yields, or the raise
Parsed(text) ==
    LET response == JsonLoads(text)
    IN  IF response.json
        THEN [raised |-> FALSE, data |-> DataContent(response)]
        ELSE [raised |-> TRUE, data |-> <<>>]

(***************************************************************************)
(* Filesystem paths                                                        *)
(***************************************************************************)
\* FINANCIAL_STATEMENTS_DIR / "json"
StagingDir == <<"json">>

\* FINANCIAL_STATEMENTS_DIR / company / account_number / year / "json"
OrganizedDir(company, account_number, year) == <<company, account_number, year, "json">>

PathName(path) == path[Len(path)]

PathDir(path) == SubSeq(path, 1, Len(path) - 1)

\* _save_json_response, lines 145-152: the artifact's filename
SaveJsonName(pdf_filename, data) ==
    LET match == Search4(pdf_filename)
    IN  IF match # NoMatch
        THEN match[2] \o SplitFirst(Get(data, "statement_date", "")) \o match[1] \o ".json"
        ELSE ReplacePdfJson(pdf_filename)

\* process_directory, lines 383-395: (year, month, last_four) or NoMatch
Identity_daymonth(name) ==
    LET match == Search8(name)
    IN  IF match # NoMatch
        THEN <<SubSeq(match[1], 1, 4), SubSeq(match[1], 7, 8), match[2]>>
        ELSE SearchAlt(name)

Identity(name) ==
    LET match == Search8(name)
    IN  IF match # NoMatch
        THEN <<SubSeq(match[1], 1, 4), SubSeq(match[1], 5, 6), match[2]>>
        ELSE SearchAlt(name)

\* process_directory, line 398: json_pattern
JsonPattern(id) == id[3] \o id[2] \o id[1] \o ".json"

(***************************************************************************)
(* State                                                                   *)
(***************************************************************************)
VARIABLES
    banking_statements, \* table banking_statements: sequence of rows
    deposits,           \* table deposits
    withdrawals,        \* table withdrawals
    json_files,         \* JSON files on disk: path -> content
    run,                \* the directory run in progress
    pc,                 \* position of the run in the per-document pipeline
    cur,                \* locals of the document being processed
    results,            \* the results list of the run
    runs,               \* runs started so far
    processed,          \* PDFs an earlier process_directory run reported success for
    written,            \* artifact names _save_json_response has written
    probe               \* argument and result of a function applied on its own

vars == <<banking_statements, deposits, withdrawals, json_files, run, pc, cur,
          results, runs, processed, written, probe>>

NoProbe == [fn |-> "none"]

NoData == <<>>
NoPath == <<>>

NewCur(name) ==
    [filename        |-> name,
     response        |-> NotJson,
     data            |-> NoData,
     json_path       |-> NoPath,
     parsed          |-> NoData,
     statement_id    |-> 0,
     i               |-> 1,
     fail            |-> "",
     raised          |-> FALSE,
     primary_calls   |-> 0,
     fallback_calls  |-> 0,
     primary_raised  |-> FALSE,
     fallback_raised |-> FALSE,
     inserts         |-> 0,
     validated       |-> FALSE,
     pjd_raised      |-> FALSE,
     move_attempted  |-> FALSE,
     move_failed     |-> FALSE,
     db_checked      |-> "",
     db_failed       |-> FALSE,
     json_looked_up  |-> FALSE,
     stages          |-> <<>>]

NoRun == [kind |-> "none", files |-> <<>>, idx |-> 0]

Init ==
    /\ banking_statements = <<>>
    /\ deposits = <<>>
    /\ withdrawals = <<>>
    /\ json_files = <<>>
    /\ run = NoRun
    /\ pc = "idle"
    /\ cur = NewCur("")
    /\ results = <<>>
    /\ runs = 0
    /\ processed = {}
    /\ written = {}
    /\ probe = NoProbe

db == <<banking_statements, deposits, withdrawals>>

(***************************************************************************)
(* Persistence gateway (src/utils/database.py)                             *)
(***************************************************************************)
\* check_statement_exists: SELECT EXISTS(... WHERE filename = %s)
CheckStatementExists(statement_filename) ==
    \E k \in 1..Len(banking_statements) :
        banking_statements[k].filename = statement_filename

\* check_statement_exists, lines 51-66: the whole body is inside try; any
\* exception of the connection or the query is caught and False is returned
CheckStatementExistsOrFalse_stale(db_ok, statement_filename) ==
    CheckStatementExists(statement_filename)

CheckStatementExistsOrFalse(db_ok, statement_filename) ==
    db_ok /\ CheckStatementExists(statement_filename)

\* fetch_account_reference: the rows with this account_number
FetchAccountReference(account_number) ==
    {a \in AccountReferences : a.account_number = account_number}

\* insert_statement: the row written, with its server-generated id
\* get_db_cursor(commit=True), lines 19-29: every insert commits on its own
\* connection, so rows of earlier inserts stay when a later insert raises
Committed_rollback(rows) == SubSeq(rows, 1, Len(rows) - 1)

Committed(rows) == rows

StatementRow_unlinked(account_ref, parsed) ==
    [id                   |-> Len(banking_statements) + 1,
     account_reference_id |-> 0,
     statement_date       |-> Strptime(parsed.statement_date),
     filename             |-> parsed.filename]

StatementRow(account_ref, parsed) ==
    [id                   |-> Len(banking_statements) + 1,
     account_reference_id |-> account_ref.id,
     statement_date       |-> Strptime(parsed.statement_date),
     filename             |-> parsed.filename]

(***************************************************************************)
(* Control-flow decisions of the orchestrator                              *)
(***************************************************************************)
\* process_statement, lines 73-77: the fallback model is invoked in the
\* except branch of the primary invoke
NeedFallback_always(primary_raised) == TRUE

NeedFallback(primary_raised) == primary_raised

\* _process_json_data, lines 188-197: a ValidationError is re-raised
\* process_statement line 99 / process_json_file line 258: the archival block
\* follows _process_json_data and is skipped when that raises
PcAfterJsonData_finally(raised) == "AR_Move"

PcAfterJsonData(raised) == IF raised THEN "Record" ELSE "AR_Move"

\* _process_json_data, lines 188-197: a ValidationError is re-raised
PcAfterValidate_swallow(errors) == "PJ_FetchAccount"

PcAfterValidate(errors) ==
    IF errors = {} THEN "PJ_FetchAccount" ELSE PcAfterJsonData(TRUE)

\* lines 127-129 / 288-290: an exception of the archival block is caught
ArchiveFailureRaises_reraise == TRUE

ArchiveFailureRaises == FALSE

\* process_directory lines 428-441, process_json_directory lines 315-327:
\* status of the result record
StatementOutcome_success(raised) == "success"

StatementOutcome(raised) == IF raised THEN "error" ELSE "success"

\* process_directory lines 378-380: continue when the statement exists
PcAfterDbCheck_nocontinue(exists) == "PD_CheckJson"

PcAfterDbCheck(exists) == IF exists THEN "Advance" ELSE "PD_CheckJson"

\* process_directory lines 420-426: record the error and continue
PcAfterExtract_nocontinue(text_ok) == "PS_Primary"

PcAfterExtract(text_ok) == IF text_ok THEN "PS_Primary" ELSE "Record"

\* process_directory lines 428-441, process_json_directory lines 315-327: the
\* exception of one document is caught inside the loop body
LoopContinuesAfter_uncaught(raised) == ~raised

LoopContinuesAfter(raised) == TRUE

\* process_statement lines 86, 137-140: a JSONDecodeError leaves
\* process_statement, the model is not asked again
PcAfterParseError_retry == "PS_Primary"

PcAfterParseError == "Record"

Stage(c, name) == [c EXCEPT !.stages = Append(@, name)]

\* an exception leaves process_statement / process_json_file
Raise(c, why) == [c EXCEPT !.raised = TRUE, !.fail = why]

\* an exception leaves _process_json_data
RaiseJsonData(c, why) == [Raise(c, why) EXCEPT !.pjd_raised = TRUE]

(***************************************************************************)
(* process_directory                                                       *)
(***************************************************************************)
\* lines 348-373: list the PDFs, test mode keeps the first only
StartProcessDirectory ==
    /\ pc = "idle"
    /\ runs < MaxRuns
    /\ \E test_mode \in BOOLEAN :
         LET pdf_files == IF test_mode THEN SubSeq(PdfListing, 1, 1) ELSE PdfListing
         IN  /\ run' = [kind |-> "pdf", files |-> pdf_files, idx |-> 1]
             /\ cur' = NewCur(pdf_files[1])
    /\ pc' = "PD_CheckDb"
    /\ results' = <<>>
    /\ runs' = runs + 1
    /\ UNCHANGED <<probe, db, json_files, processed, written>>

\* lines 377-380: database existence check; a database error reads as False
PD_CheckDb ==
    /\ pc = "PD_CheckDb"
    /\ \E db_ok \in BOOLEAN :
         LET exists == CheckStatementExistsOrFalse(db_ok, cur.filename)
         IN  /\ cur' = [cur EXCEPT !.db_checked = IF exists THEN "true" ELSE "false",
                                  !.db_failed = ~db_ok]
             /\ pc' = PcAfterDbCheck(exists)
    /\ UNCHANGED <<probe, db, json_files, run, results, runs, processed, written>>

\* lines 382-416: identity from the filename, then look for the artifact
PD_CheckJson ==
    /\ pc = "PD_CheckJson"
    /\ LET id == Identity(cur.filename)
       IN  IF id = NoMatch
           THEN /\ pc' = "Advance"
                /\ cur' = cur
           ELSE LET json_pattern == JsonPattern(id)
                    organized == Append(OrganizedDir(Company, AccountNumber, id[1]),
                                        json_pattern)
                    temp == Append(StagingDir, json_pattern)
                IN  /\ cur' = [cur EXCEPT !.json_looked_up = TRUE]
                    /\ IF organized \in DOMAIN json_files \/ temp \in DOMAIN json_files
                       THEN pc' = "Advance"
                       ELSE pc' = "PD_Extract"
    /\ UNCHANGED <<probe, db, json_files, run, results, runs, processed, written>>

\* lines 418-426: extract_text_from_pdf returns text or None
PD_Extract ==
    /\ pc = "PD_Extract"
    /\ \E text_ok \in ExtractOutcomes(cur.filename) :
         /\ cur' = IF text_ok THEN Stage(cur, "extract")
                    ELSE [Stage(cur, "extract") EXCEPT !.fail = "extraction"]
         /\ pc' = PcAfterExtract(text_ok)
    /\ UNCHANGED <<probe, db, json_files, run, results, runs, processed, written>>

(***************************************************************************)
(* process_statement                                                       *)
(***************************************************************************)
\* line 74: self.model.invoke(messages)
PS_Primary ==
    /\ pc = "PS_Primary"
    /\ \/ /\ cur' = [Stage(cur, "model") EXCEPT !.primary_calls = @ + 1,
                                               !.primary_raised = TRUE]
          /\ pc' = IF NeedFallback(TRUE) THEN "PS_Fallback" ELSE "PS_Parse"
       \/ \E r \in Responses(cur.filename) :
            /\ cur' = [Stage(cur, "model") EXCEPT !.primary_calls = @ + 1,
                                                 !.response = r]
            /\ pc' = IF NeedFallback(FALSE) THEN "PS_Fallback" ELSE "PS_Parse"
    /\ UNCHANGED <<probe, db, json_files, run, results, runs, processed, written>>

\* line 77: self.fallback_model.invoke(messages)
PS_Fallback ==
    /\ pc = "PS_Fallback"
    /\ \/ /\ cur' = [Raise(cur, "completion") EXCEPT !.fallback_calls = @ + 1,
                                                    !.fallback_raised = TRUE]
          /\ pc' = "Record"
       \/ \E r \in Responses(cur.filename) :
            /\ cur' = [cur EXCEPT !.fallback_calls = @ + 1, !.response = r]
            /\ pc' = "PS_Parse"
    /\ UNCHANGED <<probe, db, json_files, run, results, runs, processed, written>>

\* lines 79-92: json.loads and unwrapping of the data key
PS_Parse ==
    /\ pc = "PS_Parse"
    /\ IF cur.response.json
       THEN /\ cur' = [cur EXCEPT !.data = DataContent(cur.response)]
            /\ pc' = "PS_Save"
       ELSE /\ cur' = Raise(cur, "parse")
            /\ pc' = PcAfterParseError
    /\ UNCHANGED <<probe, db, json_files, run, results, runs, processed, written>>

\* line 95, _save_json_response: write the artifact to the staging directory
PS_Save ==
    /\ pc = "PS_Save"
    /\ LET json_path == Append(StagingDir, SaveJsonName(cur.filename, cur.data))
       IN  /\ json_files' = Put(json_files, json_path, cur.data)
           /\ cur' = [cur EXCEPT !.json_path = json_path]
           /\ written' = written \cup {PathName(json_path)}
    /\ pc' = "PJ_Validate"
    /\ UNCHANGED <<probe, db, run, results, runs, processed>>

(***************************************************************************)
(* _process_json_data                                                      *)
(***************************************************************************)
\* lines 168-197: filename, year backfill, StatementData(**data)
PJ_Validate ==
    /\ pc = "PJ_Validate"
    /\ LET d == Normalize(cur.data)
           errors == ValidationErrors(d)
       IN  /\ cur' = IF errors = {}
                     THEN [Stage(cur, "validate") EXCEPT !.data = d,
                                                        !.parsed = StatementData(d),
                                                        !.validated = TRUE]
                     ELSE [RaiseJsonData(Stage(cur, "validate"), "validation")
                              EXCEPT !.data = d, !.parsed = StatementData(d)]
           /\ pc' = PcAfterValidate(errors)
    /\ UNCHANGED <<probe, db, json_files, run, results, runs, processed, written>>

\* lines 199-216: account lookup and strptime of the three statement dates
PJ_FetchAccount ==
    /\ pc = "PJ_FetchAccount"
    /\ \E db_ok \in BOOLEAN :
         IF ~db_ok
         THEN /\ cur' = RaiseJsonData(cur, "persistence")
              /\ pc' = PcAfterJsonData(TRUE)
         ELSE IF FetchAccountReference(cur.parsed.account_number) = {}
         THEN /\ cur' = RaiseJsonData(cur, "account")
              /\ pc' = PcAfterJsonData(TRUE)
         ELSE IF ~(/\ Strptime_ok(cur.parsed.statement_date)
                   /\ Strptime_ok(cur.parsed.period_start)
                   /\ Strptime_ok(cur.parsed.period_end))
         THEN /\ cur' = RaiseJsonData(cur, "date")
              /\ pc' = PcAfterJsonData(TRUE)
         ELSE /\ cur' = cur
              /\ pc' = "PJ_InsertStatement"
    /\ UNCHANGED <<probe, db, json_files, run, results, runs, processed, written>>

\* the loops of lines 222-240 over parsed_data.deposits / .withdrawals
AfterDeposits(parsed) ==
    IF Len(parsed.withdrawals) >= 1 THEN "PJ_InsertWithdrawal"
    ELSE PcAfterJsonData(FALSE)

AfterStatement(parsed) ==
    IF Len(parsed.deposits) >= 1 THEN "PJ_InsertDeposit" ELSE AfterDeposits(parsed)

\* line 219: insert_statement commits one row or raises
PJ_InsertStatement ==
    /\ pc = "PJ_InsertStatement"
    /\ \E db_ok \in BOOLEAN :
         IF db_ok
         THEN LET account_ref ==
                      CHOOSE a \in FetchAccountReference(cur.parsed.account_number) : TRUE
                  row == StatementRow(account_ref, cur.parsed)
              IN  /\ banking_statements' = Append(banking_statements, row)
                  /\ cur' = [Stage(cur, "persist") EXCEPT !.statement_id = row.id,
                                                         !.inserts = @ + 1,
                                                         !.i = 1]
                  /\ pc' = AfterStatement(cur.parsed)
         ELSE /\ cur' = RaiseJsonData(Stage(cur, "persist"), "persistence")
              /\ pc' = PcAfterJsonData(TRUE)
              /\ UNCHANGED banking_statements
    /\ UNCHANGED <<probe, deposits, withdrawals, json_files, run, results, runs,
                   processed, written>>

\* lines 222-229: one iteration of the deposit loop
PJ_InsertDeposit ==
    /\ pc = "PJ_InsertDeposit"
    /\ LET deposit == cur.parsed.deposits[cur.i]
       IN  \E db_ok \in BOOLEAN :
             IF ~Strptime_ok(deposit.date)
             THEN /\ cur' = RaiseJsonData(cur, "date")
                  /\ pc' = PcAfterJsonData(TRUE)
                  /\ UNCHANGED <<banking_statements, deposits>>
             ELSE IF ~db_ok
             THEN /\ cur' = RaiseJsonData(cur, "persistence")
                  /\ pc' = PcAfterJsonData(TRUE)
                  /\ banking_statements' = Committed(banking_statements)
                  /\ UNCHANGED deposits
             ELSE /\ UNCHANGED banking_statements
                  /\ deposits' =
                        Append(deposits,
                               [banking_statement_id |-> cur.statement_id,
                                transaction_date     |-> Strptime(deposit.date),
                                description          |-> deposit.description,
                                amount               |-> deposit.amount])
                  /\ IF cur.i < Len(cur.parsed.deposits)
                     THEN /\ cur' = [cur EXCEPT !.inserts = @ + 1, !.i = @ + 1]
                          /\ pc' = "PJ_InsertDeposit"
                     ELSE /\ cur' = [cur EXCEPT !.inserts = @ + 1, !.i = 1]
                          /\ pc' = AfterDeposits(cur.parsed)
    /\ UNCHANGED <<probe, withdrawals, json_files, run, results, runs,
                   processed, written>>

\* lines 232-240: one iteration of the withdrawal loop
PJ_InsertWithdrawal ==
    /\ pc = "PJ_InsertWithdrawal"
    /\ LET withdrawal == cur.parsed.withdrawals[cur.i]
       IN  \E db_ok \in BOOLEAN :
             IF ~Strptime_ok(withdrawal.date)
             THEN /\ cur' = RaiseJsonData(cur, "date")
                  /\ pc' = PcAfterJsonData(TRUE)
                  /\ UNCHANGED <<banking_statements, withdrawals>>
             ELSE IF ~db_ok
             THEN /\ cur' = RaiseJsonData(cur, "persistence")
                  /\ pc' = PcAfterJsonData(TRUE)
                  /\ banking_statements' = Committed(banking_statements)
                  /\ UNCHANGED withdrawals
             ELSE /\ UNCHANGED banking_statements
                  /\ withdrawals' =
                        Append(withdrawals,
                               [banking_statement_id |-> cur.statement_id,
                                transaction_date     |-> Strptime(withdrawal.date),
                                description          |-> withdrawal.description,
                                amount               |-> withdrawal.amount,
                                tax_category         |-> withdrawal.tax_category])
                  /\ IF cur.i < Len(cur.parsed.withdrawals)
                     THEN /\ cur' = [cur EXCEPT !.inserts = @ + 1, !.i = @ + 1]
                          /\ pc' = "PJ_InsertWithdrawal"
                     ELSE /\ cur' = [cur EXCEPT !.inserts = @ + 1, !.i = 1]
                          /\ pc' = PcAfterJsonData(FALSE)
    /\ UNCHANGED <<probe, deposits, json_files, run, results, runs,
                   processed, written>>

(***************************************************************************)
(* Archival: process_statement 101-129, process_json_file 261-290          *)
(***************************************************************************)
\* json_path.rename(dest_path): the file leaves src and replaces dst
Rename_copy(fs, src, dst) ==
    [q \in DOMAIN fs \cup {dst} |-> IF q = dst THEN fs[src] ELSE fs[q]]

Rename(fs, src, dst) ==
    [q \in (DOMAIN fs \ {src}) \cup {dst} |-> IF q = dst THEN fs[src] ELSE fs[q]]

ArchiveFaults == {"none", "lookup", "mkdir", "rename"}

AR_Move ==
    /\ pc = "AR_Move"
    /\ run.kind # "cli"
    /\ \E fault \in ArchiveFaults :
         LET account_number == Get(cur.data, "account_number", "")
             refs == FetchAccountReference(account_number)
             statement_date == Get(cur.data, "statement_date", "")
             reaches_rename == /\ account_number # ""
                               /\ fault # "lookup" /\ refs # {}
                               /\ statement_date # ""
                               /\ fault # "mkdir"
             c == Stage(cur, "archive")
         IN  IF reaches_rename /\ fault # "rename"
             THEN LET account_ref == CHOOSE a \in refs : TRUE
                      dest_dir == OrganizedDir(account_ref.company_name, account_number,
                                               SplitLast(statement_date))
                      dest_path == Append(dest_dir, PathName(cur.json_path))
                  IN  /\ json_files' = Rename(json_files, cur.json_path, dest_path)
                      /\ cur' = [c EXCEPT !.move_attempted = TRUE]
             ELSE /\ cur' = [c EXCEPT !.move_attempted = reaches_rename,
                                      !.move_failed = TRUE,
                                      !.raised = @ \/ ArchiveFailureRaises,
                                      !.fail = "archival"]
                  /\ UNCHANGED json_files
    /\ pc' = "Record"
    /\ UNCHANGED <<probe, db, run, results, runs, processed, written>>

(***************************************************************************)
(* process_json_directory / process_json_file                              *)
(***************************************************************************)
\* json_dir.glob("*.json") for the default json_dir
StagedNames == {PathName(q) : q \in {x \in DOMAIN json_files : PathDir(x) = StagingDir}}

Listings(names) ==
    {l \in [1..Cardinality(names) -> names] : \A a, b \in DOMAIN l : l[a] = l[b] => a = b}

\* lines 296-313
StartProcessJsonDirectory ==
    /\ pc = "idle"
    /\ runs < MaxRuns
    /\ runs' = runs + 1
    /\ results' = <<>>
    /\ IF StagedNames = {}
       THEN UNCHANGED <<run, pc, cur>>
       ELSE \E json_list \in Listings(StagedNames) :
              /\ run' = [kind |-> "json", files |-> json_list, idx |-> 1]
              /\ cur' = NewCur(json_list[1])
              /\ pc' = "JF_Read"
    /\ UNCHANGED <<probe, db, json_files, processed, written>>

\* process_json_file, lines 253-255: json.load of the file
JF_Read ==
    /\ pc = "JF_Read"
    /\ LET json_path == Append(StagingDir, cur.filename)
       IN  cur' = [cur EXCEPT !.json_path = json_path, !.data = json_files[json_path]]
    /\ pc' = "PJ_Validate"
    /\ UNCHANGED <<probe, db, json_files, run, results, runs, processed, written>>

(***************************************************************************)
(* Result records and the loop over the listing                            *)
(***************************************************************************)
\* process_directory 421-441, process_json_directory 317-327
Record ==
    /\ pc = "Record"
    /\ run.kind # "cli"
    /\ results' = Append(results,
                         [filename |-> cur.filename,
                          status   |-> IF cur.fail = "extraction" THEN "error"
                                       ELSE StatementOutcome(cur.raised),
                          message  |-> IF cur.fail = "extraction"
                                       THEN "Could not extract text from the PDF"
                                       ELSE IF cur.raised THEN "str(e)"
                                       ELSE "Successfully processed and stored in database"])
    /\ pc' = "Advance"
    /\ UNCHANGED <<probe, db, json_files, run, cur, runs, processed, written>>

Successes(rs) == {rs[k].filename : k \in {j \in 1..Len(rs) : rs[j].status = "success"}}

\* first step of the loop body of each kind of run
LoopHead(kind) ==
    IF kind = "pdf" THEN "PD_CheckDb"
    ELSE IF kind = "cli" THEN "CF_Read"
    ELSE IF kind = "create" THEN "CJ_Extract" ELSE "JF_Read"

\* next iteration of the for loop, or return results
Advance ==
    /\ pc = "Advance"
    /\ IF run.idx < Len(run.files) /\ LoopContinuesAfter(cur.raised)
       THEN /\ run' = [run EXCEPT !.idx = @ + 1]
            /\ cur' = NewCur(run.files[run.idx + 1])
            /\ pc' = LoopHead(run.kind)
            /\ UNCHANGED processed
       ELSE /\ run' = NoRun
            /\ cur' = NewCur("")
            /\ pc' = "idle"
            /\ processed' = IF run.kind = "pdf"
                            THEN processed \cup Successes(results) ELSE processed
    /\ UNCHANGED <<probe, db, json_files, results, runs, written>>

Next ==
    \/ StartProcessDirectory
    \/ PD_CheckDb
    \/ PD_CheckJson
    \/ PD_Extract
    \/ PS_Primary
    \/ PS_Fallback
    \/ PS_Parse
    \/ PS_Save
    \/ PJ_Validate
    \/ PJ_FetchAccount
    \/ PJ_InsertStatement
    \/ PJ_InsertDeposit
    \/ PJ_InsertWithdrawal
    \/ AR_Move
    \/ StartProcessJsonDirectory
    \/ JF_Read
    \/ Record
    \/ Advance

Spec == Init /\ [][Next]_vars

\* positions of a directory run between its start and its return
RunPcs ==
    {"PD_CheckDb", "PD_CheckJson", "PD_Extract", "PS_Primary", "PS_Fallback",
     "PS_Parse", "PS_Save", "PJ_Validate", "PJ_FetchAccount", "PJ_InsertStatement",
     "PJ_InsertDeposit", "PJ_InsertWithdrawal", "AR_Move", "JF_Read", "Record",
     "Advance"}

\* the run leaves position p
StepFrom(p) == pc = p /\ pc' \in (RunPcs \cup {"idle"}) \ {p}

\* a directory run is one sequential call: once started it goes on to its
\* return (no step of a started run waits for anything but its own calls)
RunProgress == \A p \in RunPcs : WF_pc(StepFrom(p))

SpecLive == Spec /\ RunProgress

(***************************************************************************)
(* The process-json step of the command line (src/cli.py): it runs over    *)
(* the organized directory of one company, account and year, on top of     *)
(* whatever the agent's runs have stored and archived                      *)
(***************************************************************************)
\* the year directories the command can be pointed at
CliYears == {"2024"} \cup {q[3] : q \in {x \in DOMAIN json_files : Len(x) = 5}}

\* json_dir.glob("*.json") for json_dir of cli.py line 163
OrganizedNames(json_dir) ==
    {PathName(q) : q \in {x \in DOMAIN json_files : PathDir(x) = json_dir}}

\* cli.py line 208 hands check_statement_exists the dict json.load returned
\* where the function expects the filename: the driver has no adapter for a
\* dict parameter, execute raises, the except of database.py lines 64-66
\* catches it and the function returns False whatever the table holds
CheckStatementExistsOfData(data) == FALSE

\* banking_statements holds a row under the filename _process_json_data
\* gives this statement (agent line 174)
StatementHasRow(data) == CheckStatementExists(Get(Normalize(data), "filename", ""))

\* cli.py lines 209-216: continue after recording skipped
PcAfterCliCheck(exists) == IF exists THEN "Advance" ELSE "PJ_Validate"

\* cli.py lines 158-188: the listing of the json directory, test mode keeps
\* the first file only; the function returns when there is nothing to list
StartProcessJsonFiles ==
    /\ pc = "idle"
    /\ runs < MaxRuns
    /\ runs' = runs + 1
    /\ results' = <<>>
    /\ probe' = NoProbe
    /\ \E year \in CliYears, test_mode \in BOOLEAN :
         LET json_dir == OrganizedDir(Company, AccountNumber, year)
             names == OrganizedNames(json_dir)
         IN  IF names = {}
             THEN UNCHANGED <<run, pc, cur>>
             ELSE \E listing \in Listings(names) :
                    LET json_list == IF test_mode THEN SubSeq(listing, 1, 1)
                                     ELSE listing
                    IN  /\ run' = [kind |-> "cli", files |-> json_list, idx |-> 1,
                                   dir |-> json_dir]
                        /\ cur' = NewCur(json_list[1])
                        /\ pc' = "CF_Read"
    /\ UNCHANGED <<db, json_files, processed, written>>

\* cli.py lines 196-204: json.load of the file
CF_Read ==
    /\ pc = "CF_Read"
    /\ LET json_path == Append(run.dir, cur.filename)
       IN  cur' = [cur EXCEPT !.json_path = json_path, !.data = json_files[json_path]]
    /\ pc' = "CF_Check"
    /\ UNCHANGED <<probe, db, json_files, run, results, runs, processed, written>>

\* cli.py lines 206-216: the existence check and the skipped record; probe
\* keeps what the table held for this statement when the check was made
CF_Check ==
    /\ pc = "CF_Check"
    /\ LET exists == CheckStatementExistsOfData(cur.data)
       IN  /\ probe' = [fn |-> "check_statement_exists",
                        filename |-> cur.filename,
                        had_row |-> StatementHasRow(cur.data),
                        returned |-> exists]
           /\ cur' = [cur EXCEPT !.db_checked = IF exists THEN "true" ELSE "false"]
           /\ results' = IF exists
                         THEN Append(results,
                                     [filename |-> cur.filename,
                                      status   |-> "skipped",
                                      message  |-> "Statement already exists in database"])
                         ELSE results
           /\ pc' = PcAfterCliCheck(exists)
    /\ UNCHANGED <<db, json_files, run, runs, processed, written>>

\* cli.py lines 219-236: _process_json_data returned (success) or raised
\* (error); the command does not move the file
CF_Record ==
    /\ run.kind = "cli"
    /\ pc \in {"AR_Move", "Record"}
    /\ results' = Append(results,
                         [filename |-> cur.filename,
                          status   |-> StatementOutcome(cur.raised),
                          message  |-> IF cur.raised THEN "Failed to process JSON: str(e)"
                                       ELSE "Successfully processed and added to database"])
    /\ pc' = "Advance"
    /\ UNCHANGED <<probe, db, json_files, run, cur, runs, processed, written>>

Next_Cli ==
    \/ Next
    \/ StartProcessJsonFiles
    \/ CF_Read
    \/ CF_Check
    \/ CF_Record

SpecCli == Init /\ [][Next_Cli]_vars

(***************************************************************************)
(* The create-json step of the command line (src/cli.py, create_json_files)*)
(* over the PDFs of one company, account and year.  In this step processed *)
(* is the set of PDFs moved to the processed directory; the input          *)
(* directory holds the others                                              *)
(***************************************************************************)
\* number of create-json runs explored
MaxCreates == 2

\* the year argument of the command
CreateYear == "2024"

\* pdf_dir.glob("*.pdf"), cli.py line 39
InputListing == SelectSeq(PdfListing, LAMBDA p : p \notin processed)

\* answers of the model in this step: no JSON, the faithful payload bare or
\* in an envelope, a payload without statement_date, a payload whose
\* statement_date is no calendar date
CreateResponses(pdf) ==
    LET t == TruePayload(pdf)
    IN  {NotJson,
         [json |-> TRUE, envelope |-> FALSE, payload |-> t],
         [json |-> TRUE, envelope |-> TRUE, payload |-> t],
         [json |-> TRUE, envelope |-> FALSE, payload |-> [k \in DOMAIN t \ {"statement_date"} |-> t[k]]],
         [json |-> TRUE, envelope |-> FALSE,
          payload |-> [t EXCEPT !.statement_date = "02/30/2024"]]}

\* cli.py lines 93-100: date.strftime('%m-%Y') + ".json", or the stem of the
\* PDF's name
CreateJsonName(pdf_filename, data) ==
    LET statement_date == Get(data, "statement_date", "")
    IN  IF statement_date # ""
        THEN SubSeq(statement_date, 1, 2) \o "-" \o SubSeq(statement_date, 7, 10)
                \o ".json"
        ELSE ReplacePdfJson(pdf_filename)

\* cli.py lines 59-62: the value of extract_text_from_pdf is not tested;
\* None is formatted into the prompt and the model is called
PcAfterCreateExtract(text_ok) == "CJ_Model"

\* cli.py lines 71-129: an exception of the model call, the parse or the
\* write leaves the inner try before shutil.move (line 110)
PcAfterCreateSave_always(raised) == "CJ_Move"

PcAfterCreateSave(raised) == IF raised THEN "CJ_Record" ELSE "CJ_Move"

\* cli.py lines 13-51: the listing of the input directory, test mode keeps
\* the first PDF only
StartCreateJsonFiles ==
    /\ pc = "idle"
    /\ runs < MaxCreates
    /\ runs' = runs + 1
    /\ results' = <<>>
    /\ probe' = NoProbe
    /\ IF InputListing = <<>>
       THEN UNCHANGED <<run, pc, cur>>
       ELSE \E test_mode \in BOOLEAN :
              LET pdf_files == IF test_mode THEN SubSeq(InputListing, 1, 1)
                               ELSE InputListing
              IN  /\ run' = [kind |-> "create", files |-> pdf_files, idx |-> 1,
                             dir |-> OrganizedDir(Company, AccountNumber, CreateYear)]
                  /\ cur' = NewCur(pdf_files[1])
                  /\ pc' = "CJ_Extract"
    /\ UNCHANGED <<db, json_files, processed, written>>

\* cli.py lines 58-62, pdf.py lines 6-39: extract_text_from_pdf returns the
\* text or None and never raises; probe keeps what it returned for this PDF
CJ_Extract ==
    /\ pc = "CJ_Extract"
    /\ \E text_ok \in ExtractOutcomes(cur.filename) :
         /\ probe' = [fn |-> "create_json", filename |-> cur.filename,
                      text_ok |-> text_ok]
         /\ cur' = Stage(cur, "extract")
         /\ pc' = PcAfterCreateExtract(text_ok)
    /\ UNCHANGED <<db, json_files, run, results, runs, processed, written>>

\* cli.py lines 64-73: agent.model.invoke(messages); there is no fallback
CJ_Model ==
    /\ pc = "CJ_Model"
    /\ \/ /\ cur' = [Raise(Stage(cur, "model"), "completion")
                        EXCEPT !.primary_calls = @ + 1, !.primary_raised = TRUE]
          /\ pc' = "CJ_Record"
       \/ \E r \in CreateResponses(cur.filename) :
            /\ cur' = [Stage(cur, "model") EXCEPT !.primary_calls = @ + 1,
                                                 !.response = r]
            /\ pc' = "CJ_Parse"
    /\ UNCHANGED <<probe, db, json_files, run, results, runs, processed, written>>

\* cli.py lines 75-90: json.loads and unwrapping of the data key
CJ_Parse ==
    /\ pc = "CJ_Parse"
    /\ IF cur.response.json
       THEN /\ cur' = [cur EXCEPT !.data = DataContent(cur.response)]
            /\ pc' = "CJ_Save"
       ELSE /\ cur' = Raise(cur, "parse")
            /\ pc' = "CJ_Record"
    /\ UNCHANGED <<probe, db, json_files, run, results, runs, processed, written>>

\* cli.py lines 92-106: strptime of statement_date, then json.dump to
\* json_dir; either can raise
CJ_Save ==
    /\ pc = "CJ_Save"
    /\ \E io_ok \in BOOLEAN :
         LET statement_date == Get(cur.data, "statement_date", "")
             date_ok == statement_date = "" \/ Strptime_ok(statement_date)
             json_path == Append(run.dir, CreateJsonName(cur.filename, cur.data))
         IN  IF ~date_ok
             THEN /\ cur' = Raise(cur, "date")
                  /\ pc' = PcAfterCreateSave(TRUE)
                  /\ UNCHANGED <<json_files, written>>
             ELSE IF ~io_ok
             THEN /\ cur' = Raise(cur, "write")
                  /\ pc' = PcAfterCreateSave(TRUE)
                  /\ UNCHANGED <<json_files, written>>
             ELSE /\ json_files' = Put(json_files, json_path, cur.data)
                  /\ written' = written \cup {PathName(json_path)}
                  /\ cur' = [cur EXCEPT !.json_path = json_path]
                  /\ pc' = PcAfterCreateSave(FALSE)
    /\ UNCHANGED <<probe, db, run, results, runs, processed>>

\* cli.py lines 108-112: shutil.move of the PDF to the processed directory
CJ_Move ==
    /\ pc = "CJ_Move"
    /\ \E move_ok \in BOOLEAN :
         IF move_ok
         THEN /\ processed' = processed \cup {cur.filename}
              /\ cur' = [cur EXCEPT !.move_attempted = TRUE]
         ELSE /\ cur' = [Raise(cur, "move") EXCEPT !.move_attempted = TRUE,
                                                  !.move_failed = TRUE]
              /\ UNCHANGED processed
    /\ pc' = "CJ_Record"
    /\ UNCHANGED <<probe, db, json_files, run, results, runs, written>>

\* cli.py lines 114-129: the success record, or the error record of the
\* inner except; extract_text_from_pdf raises nothing, so the outer except
\* (lines 131-138, "Failed to extract text") is never entered
CJ_Record ==
    /\ pc = "CJ_Record"
    /\ results' = Append(results,
                         [filename |-> cur.filename,
                          status   |-> StatementOutcome(cur.raised),
                          message  |-> IF cur.raised THEN "Failed to process PDF: str(e)"
                                       ELSE "Successfully processed and saved"])
    /\ pc' = "Advance"
    /\ UNCHANGED <<probe, db, json_files, run, cur, runs, processed, written>>

Next_Create ==
    \/ StartCreateJsonFiles
    \/ CJ_Extract
    \/ CJ_Model
    \/ CJ_Parse
    \/ CJ_Save
    \/ CJ_Move
    \/ CJ_Record
    \/ Advance

SpecCreate == Init /\ [][Next_Create]_vars

(***************************************************************************)
(* One gateway operation step by step (src/utils/database.py): the context *)
(* managers get_db_connection and get_db_cursor around the query.  probe   *)
(* holds the call in progress: the operation, its position, the number of  *)
(* open connections, the uncommitted row and the tables as the call found  *)
(* them                                                                    *)
(***************************************************************************)
GatewayOps ==
    {"fetch_account_reference", "fetch_all_accounts", "check_statement_exists",
     "insert_statement", "insert_deposit", "insert_withdrawal"}

\* get_db_cursor(commit=True), lines 70, 90, 107
Commits(op) == op \in {"insert_statement", "insert_deposit", "insert_withdrawal"}

\* check_statement_exists, lines 64-66: except Exception returns False
CatchesAll(op) == op = "check_statement_exists"

\* number of gateway calls explored
MaxOps == 3

NoPending == <<>>

\* the row an insert writes; a line item refers to the latest statement row
GatewayRow(op) ==
    IF op = "insert_statement"
    THEN StatementRow(CHOOSE a \in AccountReferences : TRUE,
                      StatementData(Normalize(TruePayload(PdfListing[1]))))
    ELSE IF op = "insert_deposit"
    THEN [banking_statement_id |-> Len(banking_statements),
          transaction_date     |-> <<2024, 3, 15>>,
          description          |-> "PAYROLL ACH",
          amount               |-> 1250]
    ELSE [banking_statement_id |-> Len(banking_statements),
          transaction_date     |-> <<2024, 3, 20>>,
          description          |-> "RENT",
          amount               |-> 500,
          tax_category         |-> "Domestic Business Expense"]

\* get_db_connection, lines 15-17: finally closes the connection it opened
OpenAfterExit_leak(open, raised) == IF raised THEN open ELSE open - 1

OpenAfterExit(open, raised) == open - 1

GatewayIdle == IF probe = NoProbe THEN TRUE ELSE probe.at = "done"

\* a caller invokes one of the six operations
CallGateway ==
    /\ pc = "idle"
    /\ GatewayIdle
    /\ runs < MaxOps
    /\ \E op \in GatewayOps :
         probe' = [fn |-> "gateway", op |-> op, at |-> "connect", open |-> 0,
                   opened |-> FALSE, pending |-> NoPending, raised |-> FALSE,
                   returned |-> "", before |-> db]
    /\ runs' = runs + 1
    /\ UNCHANGED <<db, json_files, run, pc, cur, results, processed, written>>

\* get_db_connection, lines 11-14: psycopg2.connect; when it raises conn is
\* None and the finally of lines 15-17 has nothing to close
DB_Connect ==
    /\ probe # NoProbe
    /\ probe.at = "connect"
    /\ \E ok \in BOOLEAN :
         probe' = IF ok
                  THEN [probe EXCEPT !.open = @ + 1, !.opened = TRUE, !.at = "cursor"]
                  ELSE [probe EXCEPT !.raised = TRUE, !.at = "return"]
    /\ UNCHANGED <<db, json_files, run, pc, cur, results, runs, processed, written>>

\* get_db_cursor line 23 / check_statement_exists line 53: conn.cursor()
\* is outside the try of get_db_cursor; the connection's finally still runs
DB_Cursor ==
    /\ probe # NoProbe
    /\ probe.at = "cursor"
    /\ \E ok \in BOOLEAN :
         probe' = IF ok THEN [probe EXCEPT !.at = "execute"]
                  ELSE [probe EXCEPT !.raised = TRUE, !.at = "close_conn"]
    /\ UNCHANGED <<db, json_files, run, pc, cur, results, runs, processed, written>>

\* the body of the with block: cursor.execute and fetchone / fetchall; a
\* line item without a statement row violates the foreign key
DB_Execute ==
    /\ probe # NoProbe
    /\ probe.at = "execute"
    /\ \E db_ok \in BOOLEAN :
         LET ok == /\ db_ok
                   /\ probe.op \in {"insert_deposit", "insert_withdrawal"}
                         => Len(banking_statements) >= 1
         IN  probe' = IF ok
                      THEN [probe EXCEPT
                              !.pending = IF Commits(probe.op)
                                          THEN <<GatewayRow(probe.op)>> ELSE NoPending,
                              !.at = IF Commits(probe.op) THEN "commit"
                                     ELSE "close_cursor"]
                      ELSE [probe EXCEPT !.raised = TRUE, !.at = "close_cursor"]
    /\ UNCHANGED <<db, json_files, run, pc, cur, results, runs, processed, written>>

\* get_db_cursor, lines 26-27: conn.commit() after the body returned
DB_Commit ==
    /\ probe # NoProbe
    /\ probe.at = "commit"
    /\ \E ok \in BOOLEAN :
         IF ok
         THEN /\ probe' = [probe EXCEPT !.pending = NoPending, !.at = "close_cursor"]
              /\ banking_statements' =
                    IF probe.op = "insert_statement"
                    THEN banking_statements \o probe.pending ELSE banking_statements
              /\ deposits' =
                    IF probe.op = "insert_deposit"
                    THEN deposits \o probe.pending ELSE deposits
              /\ withdrawals' =
                    IF probe.op = "insert_withdrawal"
                    THEN withdrawals \o probe.pending ELSE withdrawals
         ELSE /\ probe' = [probe EXCEPT !.raised = TRUE, !.at = "close_cursor"]
              /\ UNCHANGED db
    /\ UNCHANGED <<json_files, run, pc, cur, results, runs, processed, written>>

\* get_db_cursor, lines 28-29 / the cursor's own with block, line 53
DB_CursorClose ==
    /\ probe # NoProbe
    /\ probe.at = "close_cursor"
    /\ probe' = [probe EXCEPT !.at = "close_conn"]
    /\ UNCHANGED <<db, json_files, run, pc, cur, results, runs, processed, written>>

\* get_db_connection, lines 15-17: conn.close() drops what was not committed
DB_ConnClose ==
    /\ probe # NoProbe
    /\ probe.at = "close_conn"
    /\ probe' = [probe EXCEPT !.open = OpenAfterExit(@, probe.raised),
                              !.pending = NoPending,
                              !.at = "return"]
    /\ UNCHANGED <<db, json_files, run, pc, cur, results, runs, processed, written>>

\* the operation returns its value, returns False (check_statement_exists
\* after an exception) or lets the exception out
DB_Return ==
    /\ probe # NoProbe
    /\ probe.at = "return"
    /\ probe' = [probe EXCEPT
                   !.returned = IF ~probe.raised THEN "value"
                                ELSE IF CatchesAll(probe.op) THEN "False"
                                ELSE "raise",
                   !.at = "done"]
    /\ UNCHANGED <<db, json_files, run, pc, cur, results, runs, processed, written>>

Next_Gateway ==
    \/ CallGateway
    \/ DB_Connect
    \/ DB_Cursor
    \/ DB_Execute
    \/ DB_Commit
    \/ DB_CursorClose
    \/ DB_ConnClose
    \/ DB_Return

SpecGateway == Init /\ [][Next_Gateway]_vars

(***************************************************************************)
(* process_statement called by itself, as tests/test_statement_agent.py    *)
(* does: no database check, no identity extraction and no text extraction  *)
(* precede it                                                              *)
(***************************************************************************)
\* number of direct process_statement calls explored
MaxCalls == 2

\* lines 60-69: process_statement(filename, text)
StartProcessStatement ==
    /\ pc = "idle"
    /\ runs < MaxCalls
    /\ \E filename \in {PdfListing[k] : k \in DOMAIN PdfListing} :
         /\ run' = [kind |-> "stmt", files |-> <<filename>>, idx |-> 1]
         /\ cur' = NewCur(filename)
    /\ pc' = "PS_Primary"
    /\ runs' = runs + 1
    /\ UNCHANGED <<probe, db, json_files, results, processed, written>>

\* process_statement has no return statement (signature -> None, line 60):
\* a call that does not raise evaluates to None
NoneValue == [type |-> "NoneType"]

Raised == [type |-> "raise"]

\* lines 131-140: process_statement returns None or re-raises; probe keeps
\* what the caller gets
ReturnStatement ==
    /\ pc = "Record"
    /\ probe' = [fn |-> "process_statement", filename |-> cur.filename,
                 validated |-> cur.validated, inserts |-> cur.inserts,
                 returned |-> IF cur.raised THEN Raised ELSE NoneValue]
    /\ run' = NoRun
    /\ cur' = NewCur("")
    /\ pc' = "idle"
    /\ UNCHANGED <<db, json_files, results, runs, processed, written>>

Next_Direct ==
    \/ StartProcessStatement
    \/ PS_Primary
    \/ PS_Fallback
    \/ PS_Parse
    \/ PS_Save
    \/ PJ_Validate
    \/ PJ_FetchAccount
    \/ PJ_InsertStatement
    \/ PJ_InsertDeposit
    \/ PJ_InsertWithdrawal
    \/ AR_Move
    \/ ReturnStatement

SpecDirect == Init /\ [][Next_Direct]_vars

(***************************************************************************)
(* Functions applied on their own: probe holds the argument, then the      *)
(* result                                                                  *)
(***************************************************************************)
\* PDF names <YYYYMMDD>-statements-<SSSS>-<rest>.pdf as pdf_file.name of
\* line 383 may read
NameDates == {y \o m \o d : y \in {"1999", "2023", "2024"},
                            m \in {"01", "03", "12"},
                            d \in {"02", "15", "31"}}

NameSuffixes == {"1234", "1944", "0007"}

NameRests == {"foo", "a", "20230102-statements-9999-x"}

IdentityInputs ==
    {[fn |-> "identity", date |-> d, suffix |-> x,
      name |-> d \o "-statements-" \o x \o "-" \o r \o ".pdf",
      done |-> FALSE, out |-> NoMatch] :
        d \in NameDates, x \in NameSuffixes, r \in NameRests}

\* payloads _process_json_data may be handed: the faithful payload of the
\* first statement with any combination of these departures from the schema
Defects ==
    {"deposit_amount", "deposit_date", "withdrawal_description", "tax_category",
     "statement_date", "period_start", "period_end", "beginning_balance",
     "ending_balance"}

Del(d, k) == [x \in DOMAIN d \ {k} |-> d[x]]

Defective(D) ==
    LET t  == TruePayload(PdfListing[1])
        dep0 == t.deposits[1]
        dep1 == IF "deposit_amount" \in D THEN [dep0 EXCEPT !.amount = 0] ELSE dep0
        dep2 == IF "deposit_date" \in D THEN Del(dep1, "date") ELSE dep1
        wd0 == t.withdrawals[1]
        wd1 == IF "withdrawal_description" \in D
               THEN [wd0 EXCEPT !.description = "POWER;CO"] ELSE wd0
        wd2 == IF "tax_category" \in D THEN [wd1 EXCEPT !.tax_category = "Unknown"] ELSE wd1
        t1 == [t EXCEPT !.deposits = <<dep2>>, !.withdrawals = <<wd2>>]
        t2 == IF "statement_date" \in D THEN [t1 EXCEPT !.statement_date = "2024-03-31"] ELSE t1
        t3 == IF "period_start" \in D THEN [t2 EXCEPT !.period_start = "3/1/24"] ELSE t2
        t4 == IF "period_end" \in D THEN [t3 EXCEPT !.period_end = "March 31"] ELSE t3
        t5 == IF "beginning_balance" \in D THEN [t4 EXCEPT !.beginning_balance = "abc"] ELSE t4
    IN  IF "ending_balance" \in D THEN Del(t5, "ending_balance") ELSE t5

\* the field a departure is in, as the loc of a pydantic error
DefectLoc(defect) ==
    CASE defect = "deposit_amount"         -> <<"deposits", 1, "amount">>
      [] defect = "deposit_date"           -> <<"deposits", 1, "date">>
      [] defect = "withdrawal_description" -> <<"withdrawals", 1, "description">>
      [] defect = "tax_category"           -> <<"withdrawals", 1, "tax_category">>
      [] OTHER                             -> <<defect>>

NoOutcome == [raised |-> "", errors |-> {}]

ValidatorInputs ==
    {[fn |-> "validate", defects |-> D, data |-> Defective(D),
      done |-> FALSE, out |-> NoOutcome] : D \in SUBSET Defects}

\* _process_json_data, lines 176-186: deposit['date'] of an item that has no
\* date raises KeyError before StatementData is built
BackfillRaises(data) ==
    \E kind \in {"deposits", "withdrawals"} \cap DOMAIN data :
        \E i \in 1..Len(data[kind]) : "date" \notin DOMAIN data[kind][i]

\* _process_json_data, lines 168-197: what the call raises before the
\* account lookup, and the error locations of a ValidationError
ValidateOutcome(data) ==
    IF BackfillRaises(data)
    THEN [raised |-> "KeyError", errors |-> {}]
    ELSE LET errors == ValidationErrors(Normalize(data))
         IN  [raised |-> IF errors = {} THEN "none" ELSE "ValidationError",
              errors |-> errors]

\* amounts in cents a line item may carry: -5.00, -0.01, 0, 0.01, 12.50
Amounts == {0 - 500, 0 - 1, 0, 1, 1250}

\* the faithful payload with the amount of its deposit or of its withdrawal
\* replaced
AmountInputs ==
    {[fn |-> "amount", kind |-> k, amount |-> a,
      data |-> [TruePayload(PdfListing[1]) EXCEPT ![k][1].amount = a],
      done |-> FALSE, out |-> NoOutcome] :
        k \in {"deposits", "withdrawals"}, a \in Amounts}

\* payloads whose line items carry dates with and without a year
StatementDates == {"03/31/2024", "12/31/2023"}

ItemDates == {"03/15", "03/15/2024", "12/01", "12/01/2023", "0315"}

NormalizeInputs ==
    {[fn |-> "normalize",
      data |-> [TruePayload(PdfListing[1]) EXCEPT !.statement_date = sd,
                                                   !.deposits[1].date = dd,
                                                   !.withdrawals[1].date = wd],
      done |-> FALSE, out |-> NoData, again |-> NoData] :
        sd \in StatementDates, dd \in ItemDates, wd \in ItemDates}

\* response texts: the payload or its envelope, alone or in a code fence
\* with or without the json tag, with or without whitespace around the text
Pads == {"", " ", "\n"}

ResponseTexts ==
    {[fenced |-> FALSE, text |-> lead \o body \o trail] :
        lead \in Pads, trail \in Pads, body \in {PayloadText, EnvelopeText}}
    \cup {[fenced |-> TRUE,
            text |-> lead \o Fence \o tag \o "\n" \o body \o "\n" \o Fence \o trail] :
              lead \in Pads, trail \in Pads, tag \in {"", "json"},
              body \in {PayloadText, EnvelopeText}}

NoParsed == [raised |-> FALSE, data |-> NoData]

UnwrapInputs ==
    {[fn |-> "unwrap", fenced |-> r.fenced, content |-> r.text, done |-> FALSE,
      bare |-> NoParsed, agent |-> NoParsed, cli |-> NoParsed] : r \in ResponseTexts}

\* payloads that conform to the schema: balances written in several ways,
\* the optional fields present or absent
BalanceTexts == {"1000.00", "007.10", ".5", "-12.30", "5."}

ConformInputs ==
    {[fn |-> "conform",
      data |-> LET t  == [TruePayload(PdfListing[1]) EXCEPT !.beginning_balance = b,
                                                            !.total_fees = f]
                   t1 == Put(Put(t, "filename", RowFilename(t)), "important_notes", "none")
                   t2 == IF notes THEN t1 ELSE Del(t1, "important_notes")
               IN  IF items THEN t2 ELSE Del(Del(t2, "deposits"), "withdrawals"),
      done |-> FALSE, out |-> NoData, again |-> NoData] :
        b \in BalanceTexts, f \in BalanceTexts, notes \in BOOLEAN, items \in BOOLEAN}

Init_Pure ==
    /\ banking_statements = <<>>
    /\ deposits = <<>>
    /\ withdrawals = <<>>
    /\ json_files = <<>>
    /\ run = NoRun
    /\ pc = "idle"
    /\ cur = NewCur("")
    /\ results = <<>>
    /\ runs = 0
    /\ processed = {}
    /\ written = {}
    /\ probe \in IdentityInputs \cup ValidatorInputs \cup AmountInputs
                  \cup NormalizeInputs \cup UnwrapInputs \cup ConformInputs

\* process_directory, lines 383-395, on one filename
ApplyIdentity ==
    /\ probe.fn = "identity"
    /\ ~probe.done
    /\ probe' = [probe EXCEPT !.done = TRUE, !.out = Identity(probe.name)]
    /\ UNCHANGED <<db, json_files, run, pc, cur, results, runs, processed, written>>

\* _process_json_data, lines 168-197, on one payload
ApplyValidate ==
    /\ probe.fn \in {"validate", "amount"}
    /\ ~probe.done
    /\ probe' = [probe EXCEPT !.done = TRUE, !.out = ValidateOutcome(probe.data)]
    /\ UNCHANGED <<db, json_files, run, pc, cur, results, runs, processed, written>>

\* _process_json_data, lines 168-186, on a payload, and on its own result
\* as process_json_file does with a payload it loads again (lines 254-258)
ApplyNormalize ==
    /\ probe.fn = "normalize"
    /\ ~probe.done
    /\ probe' = [probe EXCEPT !.done = TRUE,
                              !.out = Normalize(probe.data),
                              !.again = Normalize(Normalize(probe.data))]
    /\ UNCHANGED <<db, json_files, run, pc, cur, results, runs, processed, written>>

\* process_statement lines 79-92 and cli.py lines 76-84 on one response
\* text, and lines 86-92 on the text of the payload alone
ApplyUnwrap ==
    /\ probe.fn = "unwrap"
    /\ ~probe.done
    /\ probe' = [probe EXCEPT !.done = TRUE,
                              !.bare = Parsed(PayloadText),
                              !.agent = Parsed(UnfenceAgent(probe.content)),
                              !.cli = Parsed(UnfenceCli(probe.content))]
    /\ UNCHANGED <<db, json_files, run, pc, cur, results, runs, processed, written>>

\* StatementData(**data) on a payload without validation error, and on the
\* fields of the value it yields
ApplyStatementData ==
    /\ probe.fn = "conform"
    /\ ~probe.done
    /\ ValidationErrors(probe.data) = {}
    /\ probe' = [probe EXCEPT !.done = TRUE,
                              !.out = StatementData(probe.data),
                              !.again = StatementData(StatementData(probe.data))]
    /\ UNCHANGED <<db, json_files, run, pc, cur, results, runs, processed, written>>

Next_Pure ==
    \/ ApplyIdentity
    \/ ApplyValidate
    \/ ApplyNormalize
    \/ ApplyUnwrap
    \/ ApplyStatementData

SpecPure == Init_Pure /\ [][Next_Pure]_vars

(***************************************************************************)
(* Properties                                                              *)
(***************************************************************************)
\* the number of hundredths a decimal literal [-]digits[.d[d]] denotes
Hundredths(s) ==
    LET neg  == Len(s) >= 1 /\ Char(s, 1) = "-"
        body == IF neg THEN SubSeq(s, 2, Len(s)) ELSE s
        dots == {i \in 1..Len(body) : Char(body, i) = "."}
        int  == IF dots = {} THEN body ELSE SubSeq(body, 1, MinOf(dots) - 1)
        frac == IF dots = {} THEN "" ELSE SubSeq(body, MinOf(dots) + 1, Len(body))
        cents == IF Len(frac) = 0 THEN 0
                 ELSE IF Len(frac) = 1 THEN 10 * ToNat(frac) ELSE ToNat(SubSeq(frac, 1, 2))
    IN  (IF neg THEN 0 - 1 ELSE 1) * (100 * ToNat(int) + cents)

Last(q) == q[Len(q)]

Contains(q, x) == \E k \in 1..Len(q) : q[k] = x

Staged(name) == Append(StagingDir, name) \in DOMAIN json_files

Organized(name) ==
    \E q \in DOMAIN json_files : PathDir(q) # StagingDir /\ PathName(q) = name

\* line items of a table that belong to a statement row
ItemsOf(table, statement_id) ==
    Cardinality({k \in 1..Len(table) : table[k].banking_statement_id = statement_id})

\* a payload _process_json_data can store: it passes validation, its account
\* exists and its dates are calendar dates
Storable(data) ==
    LET d == Normalize(data)
    IN  /\ ValidationErrors(d) = {}
        /\ FetchAccountReference(d.account_number) # {}
        /\ \A k \in {"statement_date", "period_start", "period_end"} : Strptime_ok(d[k])
        /\ \A kind \in {"deposits", "withdrawals"} :
              \A i \in 1..Len(Get(d, kind, <<>>)) : Strptime_ok(d[kind][i].date)

\* the current document has been recorded in results
Recorded(status) ==
    /\ pc = "Advance"
    /\ Len(results) >= 1
    /\ Last(results).filename = cur.filename
    /\ Last(results).status = status

\* process_statement was called for the current document and its model stage
\* is over
ModelStageOver ==
    /\ run.kind = "pdf"
    /\ Contains(cur.stages, "extract")
    /\ cur.fail # "extraction"
    /\ pc \notin {"PS_Primary", "PS_Fallback"}

\* C1: every PDF an earlier process_directory run reported success for is
\* found by check_statement_exists, and no later process_directory run calls
\* the primary or the fallback model for it.
C1_SecondRunSkipsAtDatabaseStage ==
    \A f \in processed :
        /\ CheckStatementExists(f)
        /\ ~(run.kind = "pdf" /\ cur.filename = f
             /\ cur.primary_calls + cur.fallback_calls > 0)

\* C2: banking_statements never holds two rows with the same
\* (account_reference_id, statement_date) or the same
\* (account_reference_id, filename).
C2_AtMostOneRowPerStatement ==
    \A j, k \in 1..Len(banking_statements) :
        j # k =>
            ~(/\ banking_statements[j].account_reference_id
                    = banking_statements[k].account_reference_id
              /\ \/ banking_statements[j].statement_date
                        = banking_statements[k].statement_date
                 \/ banking_statements[j].filename = banking_statements[k].filename)

\* C3: the artifact process_statement writes for a PDF carries the filename
\* <suffix><month><year>.json that process_directory's JSON-stage check looks
\* up for that PDF.
C3_ArtifactNameIsTheNameLookedUp ==
    (run.kind = "pdf" /\ cur.json_path # NoPath) =>
        PathName(cur.json_path) = JsonPattern(Identity(cur.filename))

\* C4: in one process_statement call the primary model is invoked exactly
\* once, and the fallback model once if the primary raised and never if it
\* returned.
C4_FallbackExactlyOnceOnPrimaryFailure ==
    /\ cur.primary_calls <= 1
    /\ cur.fallback_calls <= 1
    /\ ModelStageOver =>
          /\ cur.primary_calls = 1
          /\ cur.fallback_calls = (IF cur.primary_raised THEN 1 ELSE 0)

C4_Witness ==
    /\ pc = "PS_Parse"
    /\ cur.primary_raised
    /\ cur.fallback_calls = 1

\* C5: when both model calls raise for a document, no insert is made and no
\* artifact is written for it, and process_directory records status error.
C5_BothModelsFailNoWrite ==
    (cur.primary_raised /\ cur.fallback_raised) =>
        /\ cur.inserts = 0
        /\ cur.statement_id = 0
        /\ cur.json_path = NoPath
        /\ pc \in {"Record", "Advance"}
        /\ pc = "Advance" => Recorded("error")

C5_Witness ==
    /\ cur.primary_raised
    /\ cur.fallback_raised
    /\ Recorded("error")

\* C6: whenever process_statement fails at JSON parsing or at validation, it
\* has written no artifact to staging.
C6_NoArtifactUnlessValidated ==
    (run.kind = "pdf" /\ cur.fail \in {"parse", "validation"}) =>
        cur.json_path = NoPath

\* C7: whenever _process_json_data raises, the archival step is not entered,
\* the rename is not attempted and the artifact stays at its original path.
C7_NoMoveAfterFailedPersist ==
    cur.pjd_raised =>
        /\ ~cur.move_attempted
        /\ ~Contains(cur.stages, "archive")
        /\ cur.json_path \in DOMAIN json_files
        /\ pc \in {"Record", "Advance"}

C7_Witness ==
    /\ cur.pjd_raised
    /\ cur.statement_id > 0
    /\ pc = "Advance"
    /\ cur.json_path \in DOMAIN json_files

\* C8: when the database write succeeded and the archival step fails, no
\* exception leaves process_statement / process_json_file, the artifact is
\* still at its staging path and the document is recorded with status success.
C8_ArchivalFailureIsNotFatal ==
    (cur.move_failed /\ ~cur.pjd_raised) =>
        /\ ~cur.raised
        /\ cur.json_path \in DOMAIN json_files
        /\ PathDir(cur.json_path) = StagingDir
        /\ pc \in {"Record", "Advance"}
        /\ pc = "Advance" => Recorded("success")

C8_Witness ==
    /\ cur.move_failed
    /\ cur.inserts = 3
    /\ Recorded("success")
    /\ Staged(PathName(cur.json_path))

\* C9: every artifact that has been written exists in exactly one of the
\* staging directory and the organized directories.
C9_ArtifactInExactlyOnePlace ==
    \A name \in written : Staged(name) # Organized(name)

\* C10: the stage events of a document in one run occur in the order
\* extraction, completion, validation, persistence, archival, each at most
\* once, and no insert is made before the Validator accepted the payload.
StageRank(name) ==
    CASE name = "extract" -> 1
      [] name = "model" -> 2
      [] name = "validate" -> 3
      [] name = "persist" -> 4
      [] name = "archive" -> 5

C10_StagesInOrder ==
    /\ \A j, k \in 1..Len(cur.stages) :
          j < k => StageRank(cur.stages[j]) < StageRank(cur.stages[k])
    /\ (Contains(cur.stages, "persist") \/ cur.inserts > 0) => cur.validated

C10_Witness ==
    cur.stages = <<"extract", "model", "validate", "persist", "archive">>

\* C11: in process_directory the database existence check of a PDF comes
\* before the lookup of its JSON artifact, its text extraction and any model
\* call, and when the check is true none of these is performed for the PDF.
C11_DatabaseCheckFirst ==
    run.kind = "pdf" =>
        /\ (cur.json_looked_up \/ cur.stages # <<>>
              \/ cur.primary_calls + cur.fallback_calls > 0)
                => cur.db_checked = "false"
        /\ cur.db_checked = "true" =>
              /\ ~cur.json_looked_up
              /\ cur.stages = <<>>
              /\ cur.primary_calls + cur.fallback_calls = 0
              /\ pc = "Advance"

C11_Witness ==
    /\ run.kind = "pdf"
    /\ cur.db_checked = "true"
    /\ pc = "Advance"

\* C12: a directory run returns only after the last file of its listing has
\* been considered, whatever happened to the files before it.
C12_FailureNeverStopsTheRun ==
    [][(pc = "Advance" /\ pc' = "idle") => run.idx = Len(run.files)]_vars

C12_Witness ==
    /\ run.kind = "pdf"
    /\ pc = "Advance"
    /\ Len(run.files) = 3
    /\ run.idx = Len(run.files)
    /\ Len(results) = 2
    /\ results[1].status = "error"
    /\ results[2].status = "error"

\* C13: the list process_directory builds holds one record per PDF
\* considered, in listing order, with status success, error or skipped.
C13_OneRecordPerPdf ==
    (run.kind = "pdf" /\ pc = "Advance") =>
        /\ Len(results) = run.idx
        /\ \A k \in 1..Len(results) :
              /\ results[k].filename = run.files[k]
              /\ results[k].status \in {"success", "error", "skipped"}

\* C14: when extraction yields no text, the document is recorded with status
\* error, extraction is not repeated, no model is called and nothing is
\* written to disk or database for the document.
C14_NoTextNoFurtherStage ==
    cur.fail = "extraction" =>
        /\ cur.stages = <<"extract">>
        /\ cur.primary_calls + cur.fallback_calls = 0
        /\ cur.inserts = 0
        /\ cur.json_path = NoPath
        /\ pc \in {"Record", "Advance"}
        /\ pc = "Advance" => Recorded("error")

C14_Witness ==
    /\ cur.fail = "extraction"
    /\ cur.filename = PdfListing[2]
    /\ Recorded("error")

\* C15: when the model's response is not JSON or fails validation, the
\* document ends with status error, no model is called again for it and no
\* row is inserted for it.
C15_MalformedResponseIsFinal ==
    cur.fail \in {"parse", "validation"} =>
        /\ cur.primary_calls <= 1
        /\ cur.fallback_calls <= 1
        /\ cur.inserts = 0
        /\ cur.statement_id = 0
        /\ pc \in {"Record", "Advance"}
        /\ pc = "Advance" => Recorded("error")

C15_Witness ==
    /\ run.kind = "pdf"
    /\ cur.fail = "validation"
    /\ cur.primary_calls = 1
    /\ Recorded("error")

\* C16: for a PDF filename that matches neither identity pattern no model
\* is called and no JSON artifact is written, through process_directory and
\* through process_statement alike.
C16_NoGuessedIdentity ==
    (run.kind \in {"pdf", "stmt"} /\ Identity(cur.filename) = NoMatch) =>
        /\ cur.primary_calls + cur.fallback_calls = 0
        /\ cur.json_path = NoPath

\* C17: for a filename <YYYYMMDD>-statements-<SSSS>-<rest>.pdf the identity
\* process_directory extracts is year = the first four digits of the date,
\* month = its digits five and six, suffix = SSSS.
C17_IdentityFromFilename ==
    (probe.fn = "identity" /\ probe.done) =>
        probe.out = <<SubSeq(probe.date, 1, 4), SubSeq(probe.date, 5, 6), probe.suffix>>

C17_Witness ==
    /\ probe.fn = "identity"
    /\ probe.done
    /\ probe.name = "20240315-statements-1234-foo.pdf"
    /\ probe.out = <<"2024", "03", "1234">>

\* C18: a payload (every line item of which has a date) with a withdrawal
\* whose tax_category is not one of the seven categories fails validation
\* with an error located at that withdrawal's tax_category.
C18_UnknownTaxCategoryRejected ==
    (probe.fn = "validate" /\ probe.done /\ ~BackfillRaises(probe.data)) =>
        \A i \in 1..Len(probe.data.withdrawals) :
            probe.data.withdrawals[i].tax_category \notin TaxCategories =>
                /\ probe.out.raised = "ValidationError"
                /\ <<"withdrawals", i, "tax_category">> \in probe.out.errors

\* C19: a payload (every line item of which has a date) whose statement_date,
\* period_start or period_end is not MM/DD/YYYY fails validation with an
\* error located at that field.
C19_StatementDatesValidated ==
    (probe.fn = "validate" /\ probe.done /\ ~BackfillRaises(probe.data)) =>
        \A f \in {"statement_date", "period_start", "period_end"} :
            ~(Len(probe.data[f]) = 10 /\ DatePattern_ok(probe.data[f])) =>
                /\ probe.out.raised = "ValidationError"
                /\ <<f>> \in probe.out.errors

\* C20: for a payload with two or more defects in different fields the
\* validation error raised lists the location of every one of them.
C20_AllViolationsReported ==
    (probe.fn = "validate" /\ probe.done /\ Cardinality(probe.defects) >= 2) =>
        /\ probe.out.raised = "ValidationError"
        /\ \A defect \in probe.defects : DefectLoc(defect) \in probe.out.errors

\* C21: validation accepts the amount of a deposit or withdrawal line item
\* if and only if it is strictly greater than zero.
C21_AmountStrictlyPositive ==
    (probe.fn = "amount" /\ probe.done) =>
        /\ (probe.out.raised = "none") <=> (probe.amount > 0)
        /\ (<<probe.kind, 1, "amount">> \in probe.out.errors) <=> ~(probe.amount > 0)

C21_Witness ==
    /\ probe.fn = "amount"
    /\ probe.done
    /\ probe.kind = "withdrawals"
    /\ probe.amount = 0
    /\ probe.out.errors = {<<"withdrawals", 1, "amount">>}

\* C22: before validation a line-item date MM/DD becomes MM/DD/<YYYY>, YYYY
\* the year of the payload's statement_date, and a date that has three
\* slash-separated parts is left as it is.
C22_YearBackfilledFromStatementDate ==
    (probe.fn = "normalize" /\ probe.done) =>
        \A kind \in {"deposits", "withdrawals"} :
            \A i \in 1..Len(probe.data[kind]) :
                LET before == probe.data[kind][i].date
                    after  == probe.out[kind][i].date
                    yyyy   == SubSeq(probe.data.statement_date, 7, 10)
                IN  /\ (Len(before) = 5 /\ DatePattern_ok(before))
                          => after = before \o "/" \o yyyy
                    /\ Cardinality(SlashPos(before)) = 2 => after = before

C22_Witness ==
    /\ probe.fn = "normalize"
    /\ probe.done
    /\ probe.data.statement_date = "03/31/2024"
    /\ probe.data.deposits[1].date = "03/15"
    /\ probe.out.deposits[1].date = "03/15/2024"

\* C23: normalizing already normalized data changes nothing, so a payload
\* normalized again when it is loaded from its artifact gets no second year.
C23_BackfillIdempotent ==
    (probe.fn = "normalize" /\ probe.done) =>
        /\ probe.again = probe.out
        /\ \A kind \in {"deposits", "withdrawals"} :
              \A i \in 1..Len(probe.again[kind]) :
                  Cardinality(SlashPos(probe.again[kind][i].date)) <= 2

C23_Witness ==
    /\ probe.fn = "normalize"
    /\ probe.done
    /\ probe.data.withdrawals[1].date = "12/01"
    /\ probe.out.withdrawals[1].date = "12/01/2023"
    /\ probe.again.withdrawals[1].date = "12/01/2023"

\* C24: a response that is the payload in a {status, data} envelope and in a
\* code fence, with or without the json tag and with or without whitespace
\* around it, yields the same data as the response that is the payload alone.
C24_UnwrapInsensitiveToFenceAndEnvelope ==
    (probe.fn = "unwrap" /\ probe.done) =>
        /\ probe.agent = probe.bare
        /\ probe.cli = probe.bare

\* C25: for a payload that conforms to the schema every field of the
\* validated StatementData equals the field of the payload (a balance
\* denotes the same amount), and validating the validated value again gives
\* the same value.
C25_ConformantPayloadUnchanged ==
    (probe.fn = "conform" /\ probe.done) =>
        /\ \A k \in DOMAIN probe.data \ RequiredDecimal : probe.out[k] = probe.data[k]
        /\ \A k \in RequiredDecimal :
              Hundredths(probe.out[k]) = Hundredths(probe.data[k])
        /\ probe.again = probe.out

C25_Witness ==
    /\ probe.fn = "conform"
    /\ probe.done
    /\ probe.data.beginning_balance = "007.10"
    /\ probe.out.beginning_balance = "7.10"
    /\ "important_notes" \notin DOMAIN probe.data
    /\ probe.again = probe.out

\* C26: a document whose account_number resolves to no account reference
\* ends with an error and no row inserted for it, and the statement row
\* inserted for a document carries the id of the account reference of its
\* account_number.
C26_NoAccountNoRow ==
    /\ cur.fail = "account" =>
          /\ FetchAccountReference(cur.parsed.account_number) = {}
          /\ cur.inserts = 0
          /\ cur.statement_id = 0
          /\ pc \in {"Record", "Advance"}
          /\ pc = "Advance" => Recorded("error")
    /\ cur.statement_id # 0 =>
          \E a \in AccountReferences :
              /\ a.account_number = cur.parsed.account_number
              /\ banking_statements[cur.statement_id].account_reference_id = a.id
    /\ \A k \in 1..Len(banking_statements) :
          \E a \in AccountReferences : banking_statements[k].account_reference_id = a.id

C26_Witness ==
    /\ run.kind = "pdf"
    /\ cur.fail = "account"
    /\ cur.parsed.account_number = "000000000"
    /\ Recorded("error")

\* C27: when a deposit or withdrawal insert fails after insert_statement
\* returned, the statement row and the line items inserted before stay, no
\* further line item is inserted, the document is reported with status error
\* and its artifact stays in the staging directory.
C27_PartialWriteStaysCommitted ==
    (cur.fail = "persistence" /\ cur.statement_id # 0) =>
        /\ \E k \in 1..Len(banking_statements) :
              banking_statements[k].id = cur.statement_id
        /\ ItemsOf(deposits, cur.statement_id) + ItemsOf(withdrawals, cur.statement_id)
              = cur.inserts - 1
        /\ cur.inserts - 1 < Len(cur.parsed.deposits) + Len(cur.parsed.withdrawals)
        /\ pc \in {"Record", "Advance"}
        /\ pc = "Advance" => Recorded("error")
        /\ ~cur.move_attempted
        /\ cur.json_path \in DOMAIN json_files
        /\ PathDir(cur.json_path) = StagingDir

C27_Witness ==
    /\ run.kind = "pdf"
    /\ cur.fail = "persistence"
    /\ cur.statement_id # 0
    /\ ItemsOf(deposits, cur.statement_id) = 1
    /\ ItemsOf(withdrawals, cur.statement_id) = 0
    /\ Recorded("error")

\* C28: process_statement, given a valid statement, returns a
\* StatementResponse whose status is success, whose data is present and
\* whose error is absent.
C28_ReturnsSuccessResponse ==
    (probe.fn = "process_statement" /\ probe.validated /\ probe.returned # Raised) =>
        /\ probe.returned.type = "StatementResponse"
        /\ probe.returned.status = "success"
        /\ probe.returned.data # NoData
        /\ probe.returned.error = NoData

\* C29: a process_json_directory run calls no model, and for a staged
\* artifact that is valid and whose account exists the run goes on, barring a
\* database failure, to insert the statement with its line items, report
\* success and, barring a move failure, leave the artifact in the organized
\* directory and not in staging.
C29_RecoveredWithoutModel_safe ==
    run.kind = "json" =>
        /\ cur.primary_calls + cur.fallback_calls = 0
        /\ (pc = "Advance" /\ cur.data # NoData /\ Storable(cur.data)) =>
              \/ cur.fail = "persistence"
              \/ /\ Recorded("success")
                 /\ cur.statement_id # 0
                 /\ ItemsOf(deposits, cur.statement_id) = Len(cur.parsed.deposits)
                 /\ ItemsOf(withdrawals, cur.statement_id) = Len(cur.parsed.withdrawals)
                 /\ \/ cur.move_failed
                    \/ /\ ~Staged(cur.filename)
                       /\ Organized(cur.filename)

C30_CliSkipsStoredStatements ==
    (/\ run.kind = "cli"
     /\ probe.fn = "check_statement_exists"
     /\ probe.filename = cur.filename
     /\ probe.had_row)
        => /\ cur.inserts = 0
           /\ pc = "Advance" => Recorded("skipped")

\* C31 as stated: a document whose existence check failed on a database
\* error goes on to text extraction (and from there to the model call and
\* the inserts).
C31_FailedCheckReachesExtraction ==
    (run.kind = "pdf" /\ cur.db_failed /\ pc = "Advance")
        => Contains(cur.stages, "extract")

\* C31, amended: check_statement_exists never raises; when it fails on a
\* database error it returns False, nothing is recorded for the document and
\* process_directory goes on to the next step for it, the identity and
\* artifact lookup, instead of skipping it as already stored.
C31_FailedCheckReadsAsAbsent ==
    [][(pc = "PD_CheckDb" /\ cur'.db_failed)
          => /\ pc' = "PD_CheckJson"
             /\ cur'.db_checked = "false"
             /\ ~cur'.raised
             /\ results' = results]_vars

C31_Witness ==
    /\ run.kind = "pdf"
    /\ cur.db_failed
    /\ Contains(cur.stages, "extract")
    /\ cur.primary_calls >= 1
    /\ cur.inserts >= 1

\* C32: a payload the validator accepted never fails on the parsing of a
\* transaction date after its statement row has been committed, so no
\* validated payload leaves a statement row with only part of its line items
\* because of a date.
C32_ValidatedDatesAreCalendarDates ==
    (cur.validated /\ cur.statement_id # 0)
        => /\ cur.fail # "date"
           /\ \A i \in 1..Len(cur.parsed.deposits) :
                 Strptime_ok(cur.parsed.deposits[i].date)
           /\ \A i \in 1..Len(cur.parsed.withdrawals) :
                 Strptime_ok(cur.parsed.withdrawals[i].date)

\* C33: every gateway operation has closed the connection it opened when it
\* returns or raises, so no connection is open between two operations, and
\* an insert that raises leaves the tables as it found them.
C33_ConnectionReleasedOnExit ==
    (probe # NoProbe /\ probe.fn = "gateway") =>
        /\ probe.open \in {0, 1}
        /\ probe.at \in {"return", "done"} =>
              /\ probe.open = 0
              /\ probe.pending = NoPending
              /\ probe.raised => db = probe.before
              /\ (probe.at = "done" /\ CatchesAll(probe.op)) => probe.returned # "raise"

C33_Witness ==
    /\ probe # NoProbe
    /\ probe.fn = "gateway"
    /\ probe.op = "insert_deposit"
    /\ probe.at = "done"
    /\ probe.raised
    /\ probe.opened
    /\ Len(banking_statements) >= 1
    /\ probe.open = 0

\* C34: in the create-json step a PDF whose text extraction yielded no text
\* is recorded with status error and the message "Failed to extract text",
\* the model is not called for it, no JSON file is written for it and it is
\* not moved to the processed directory.
C34_NoTextNoModelCall ==
    (/\ run.kind = "create"
     /\ probe # NoProbe
     /\ probe.filename = cur.filename
     /\ ~probe.text_ok)
        => /\ cur.primary_calls = 0
           /\ cur.json_path = NoPath
           /\ cur.filename \notin processed
           /\ pc = "Advance" =>
                 /\ Recorded("error")
                 /\ Last(results).message = "Failed to extract text"

\* C35: in the create-json step a PDF is in the processed directory only
\* when its JSON file has been written; a PDF whose model call, parse or
\* JSON write failed stays in the input directory and is recorded with
\* status error, and a later full run lists every PDF still in the input
\* directory again.
C35_MovedOnlyAfterJsonWritten_safe ==
    run.kind = "create" =>
        /\ cur.filename \in processed =>
              /\ cur.json_path # NoPath
              /\ cur.json_path \in DOMAIN json_files
              /\ ~cur.raised
        /\ cur.fail \in {"completion", "parse", "date", "write"} =>
              /\ cur.filename \notin processed
              /\ ~cur.move_attempted
              /\ pc = "Advance" => Recorded("error")

C35_MovedOnlyAfterJsonWritten ==
    /\ []C35_MovedOnlyAfterJsonWritten_safe
    /\ [][(pc = "idle" /\ pc' = "CJ_Extract" /\ Len(run'.files) # 1)
            => \A k \in DOMAIN PdfListing :
                  PdfListing[k] \notin processed => Contains(run'.files, PdfListing[k])]_vars

C35_Witness ==
    /\ run.kind = "create"
    /\ runs = 2
    /\ written = {}
    /\ cur.filename = PdfListing[1]
    /\ cur.fail = "write"
    /\ Recorded("error")
    /\ cur.filename \notin processed

====
